---- MODULE Spec2Model ----
(***************************************************************************)
(* L1TransactionReceipt (packages/arb-ts/src/lib/message/L1Transaction.ts) *)
(* and the L1ToL2Message status machine it hands its messages to.          *)
(*                                                                         *)
(* The receipt is an immutable value: it is chosen in Init and every       *)
(* operation reads it.  `call` records the last completed call of one of   *)
(* the receipt's methods (its arguments, its outcome and the number of     *)
(* chain-metadata lookups it made).                                        *)
(*                                                                         *)
(* JavaScript values: an optional value is <<>> (undefined) or <<v>>.      *)
(* A call's outcome is [kind |-> "return", value |-> v] or                 *)
(* [kind |-> "throw", error |-> e].                                        *)
(***************************************************************************)
EXTENDS Integers, Sequences, FiniteSets, TLC

VARIABLES receipt, call, msg, ticket, attempt

vars == <<receipt, call, msg, ticket, attempt>>

(***************************************************************************)
(* Bounds                                                                  *)
(***************************************************************************)
MaxLogs == 3
MaxIndex == 2

(***************************************************************************)
(* JavaScript helpers                                                      *)
(***************************************************************************)
Undefined == <<>>

Some(v) == <<v>>

Return(v) == [kind |-> "return", value |-> v]

Throw(e) == [kind |-> "throw", error |-> e]

Range(s) == {s[i] : i \in 1..Len(s)}

\* arr[i] for a number i: undefined outside 0..length-1
ArrayGet(arr, i) == IF i \in 0..(Len(arr) - 1) THEN Some(arr[i + 1]) ELSE Undefined

(***************************************************************************)
(* Event topics (iface.getEventTopic): one opaque 32-byte hash per event   *)
(***************************************************************************)
InboxMessageDelivered == "topic:InboxMessageDelivered(uint256,bytes)"

InboxMessageDeliveredFromOrigin == "topic:InboxMessageDeliveredFromOrigin(uint256)"

DepositInitiated == "topic:DepositInitiated(address,address,address,uint256,uint256)"

Transfer == "topic:Transfer(address,address,uint256)"

(***************************************************************************)
(* Words: a topic or data word is a big-endian string of hex digits        *)
(***************************************************************************)
Words == {<<0, 10>>, <<1, 0>>}

\* BigNumber.from(hexString)
RECURSIVE BigNumberFromHex(_)
BigNumberFromHex(w) ==
    IF Len(w) = 0 THEN 0
    ELSE 16 * BigNumberFromHex(SubSeq(w, 1, Len(w) - 1)) + w[Len(w)]

\* faulty variant: the digits come out least significant first
RECURSIVE NumberToString_Reversed(_)
NumberToString_Reversed(n) ==
    IF n < 10 THEN <<n>> ELSE <<n % 10>> \o NumberToString_Reversed(n \div 10)

\* Number.prototype.toString(): decimal digits, most significant first
RECURSIVE NumberToString(_)
NumberToString(n) ==
    IF n < 10 THEN <<n>> ELSE NumberToString(n \div 10) \o <<n % 10>>

\* BigNumber.from(decimalString)
RECURSIVE BigNumberFromDecimal(_)
BigNumberFromDecimal(s) ==
    IF Len(s) = 0 THEN 0
    ELSE 10 * BigNumberFromDecimal(SubSeq(s, 1, Len(s) - 1)) + s[Len(s)]

(***************************************************************************)
(* Logs and receipts                                                       *)
(***************************************************************************)
Log(topics, data) == [topics |-> topics, data |-> data]

\* log.topics[i]
TopicAt(log, i) == ArrayGet(log.topics, i)

InboxLogs ==
    {Log(<<t, w>>, <<>>) : t \in {InboxMessageDelivered, InboxMessageDeliveredFromOrigin},
                           w \in Words}

\* DepositInitiated(l1Token, indexed _from, indexed _to, indexed _sequenceNumber, _amount):
\* one log that matches the schema and one whose data is cut short
DepositLogs ==
    {Log(<<DepositInitiated, <<0, 1>>, <<0, 2>>, <<1, 0>>>>, <<<<0, 3>>, <<0, 10>>>>),
     Log(<<DepositInitiated, <<0, 1>>, <<0, 2>>, <<1, 0>>>>, <<<<0, 3>>>>)}

\* an anonymous event (no topics) and an ERC-20 Transfer
OtherLogs == {Log(<<>>, <<>>), Log(<<Transfer, <<0, 1>>, <<0, 2>>>>, <<<<0, 10>>>>)}

LogPool == InboxLogs \cup DepositLogs \cup OtherLogs

LogSeqs == UNION {[1..n -> LogPool] : n \in 0..MaxLogs}

TxHashes == {"0xaaaa", "0xbbbb"}

\* new L1TransactionReceipt(tx): the fields the operations read
L1TransactionReceipt(tx) == [transactionHash |-> tx.transactionHash, logs |-> tx.logs]

Receipts ==
    {L1TransactionReceipt([transactionHash |-> h, logs |-> l]) : h \in TxHashes, l \in LogSeqs}

(***************************************************************************)
(* Destination-chain handles (SignerOrProvider)                            *)
(***************************************************************************)
Provider(detects, chainId) == [detects |-> detects, chainId |-> chainId]

ProviderHandle(p) == [isSigner |-> FALSE, provider |-> Some(p)]

SignerHandle(maybeProvider) == [isSigner |-> TRUE, provider |-> maybeProvider]

\* a provider on chain 421611, a provider whose network cannot be detected,
\* a signer connected to chain 42161, a signer with no provider
Handles ==
    {ProviderHandle(Provider(TRUE, 421611)), ProviderHandle(Provider(FALSE, 0)),
     SignerHandle(Some(Provider(TRUE, 42161))), SignerHandle(Undefined)}

\* messageIndex?: number
Indexes == {Undefined} \cup {Some(i) : i \in (-1)..MaxIndex}

(***************************************************************************)
(* Errors                                                                  *)
(***************************************************************************)
Error(name, template, args) == [name |-> name, template |-> template, args |-> args]

NoMessageFound(r) ==
    Error("ArbTsError", "No l1 to L2 message found for ${transactionHash}",
          [transactionHash |-> r.transactionHash])

IndexOutOfRange(r, messageIndex, messageCount) ==
    Error("ArbTsError",
          "Provided message number out of range for ${transactionHash}; index was ${messageIndex}, but only ${messageCount} messages",
          [transactionHash |-> r.transactionHash, messageIndex |-> messageIndex,
           messageCount |-> messageCount])

AmbiguousMessageCount(r, messageCount) ==
    Error("ArbTsError",
          "${messageCount} L2 messages for ${transactionHash}; must provide messageNumberIndex (or use (signersAndProviders, l1Txn))",
          [messageCount |-> messageCount, transactionHash |-> r.transactionHash])

MissingProvider == Error("MissingProviderArbTsError", "signerOrProvider does not have a connected provider", [source |-> "signerOrProvider"])

NetworkError == Error("Error", "could not detect network", [code |-> "NETWORK_ERROR"])

DecodeError(log) ==
    Error("Error", "data out-of-bounds",
          [code |-> "BUFFER_OVERRUN", length |-> Len(log.data), offset |-> 2])

(***************************************************************************)
(* getMessageNumbers                                                       *)
(***************************************************************************)
\* faulty variant: the from-origin topic is forgotten
IsMessageDelivered_OnlyDelivered(log) == TopicAt(log, 0) = Some(InboxMessageDelivered)

\* faulty variant: every log that has a topic passes the filter
IsMessageDelivered_AnyTopic(log) == TopicAt(log, 0) # Undefined

\* the filter predicate of getMessageNumbers
IsMessageDelivered(log) ==
    \/ TopicAt(log, 0) = Some(InboxMessageDelivered)
    \/ TopicAt(log, 0) = Some(InboxMessageDeliveredFromOrigin)

\* log => BigNumber.from(log.topics[1])
MessageNumberOf(log) == BigNumberFromHex(log.topics[2])

getMessageNumbers(r) ==
    LET logs == SelectSeq(r.logs, IsMessageDelivered) IN
    [i \in 1..Len(logs) |-> MessageNumberOf(logs[i])]

(***************************************************************************)
(* L1ToL2Message: identifier and message objects                           *)
(***************************************************************************)
\* keccak256 of the padded chain id and message number, as a symbolic hash term
calculateRetryableCreationId(chainId, messageNumber) == <<"keccak256", chainId, messageNumber>>

\* a writer for a signer, a reader for a provider
fromRetryableCreationId(l2SignerOrProvider, retryableCreationId, messageNumber) ==
    [l2SignerOrProvider |-> l2SignerOrProvider,
     retryableCreationId |-> retryableCreationId,
     messageNumber |-> messageNumber,
     writable |-> l2SignerOrProvider.isSigner]

(***************************************************************************)
(* getL1ToL2Messages                                                       *)
(***************************************************************************)
getProviderOrThrow(signerOrProvider) ==
    IF signerOrProvider.provider = Undefined
    THEN Throw(MissingProvider)
    ELSE Return(signerOrProvider.provider[1])

\* await provider.getNetwork()
getNetwork(provider) ==
    IF provider.detects THEN Return([chainId |-> provider.chainId]) ELSE Throw(NetworkError)

\* the outcome of an asynchronous call and the chain-metadata lookups it awaited
Done(outcome, lookups) == [outcome |-> outcome, lookups |-> lookups]

getL1ToL2Messages(r, l2SignerOrProvider) ==
    LET provider == getProviderOrThrow(l2SignerOrProvider) IN
    IF provider.kind = "throw" THEN Done(provider, 0)
    ELSE LET network == getNetwork(provider.value) IN
         IF network.kind = "throw" THEN Done(network, 1)
         ELSE LET chainID == NumberToString(network.value.chainId)
                  messageNumbers == getMessageNumbers(r)
                  toMessage(mn) ==
                      fromRetryableCreationId(
                          l2SignerOrProvider,
                          calculateRetryableCreationId(BigNumberFromDecimal(chainID), mn),
                          mn)
              IN IF Len(messageNumbers) = 0
                 THEN Done(Return(<<>>), 1)
                 ELSE Done(Return([i \in 1..Len(messageNumbers) |-> toMessage(messageNumbers[i])]), 1)

(***************************************************************************)
(* getL1ToL2Message                                                        *)
(***************************************************************************)
\* faulty variant: the zero-message check compares the wrong way
NoMessages_Negative(messageCount) == messageCount < 0

\* !messageCount
NoMessages(messageCount) == messageCount = 0

\* faulty variant: > for >=
OutOfRange_Strict(messageIndex, messageCount) ==
    messageIndex # Undefined /\ messageIndex[1] > messageCount

\* messageIndex !== undefined && messageIndex >= messageCount
OutOfRange(messageIndex, messageCount) ==
    messageIndex # Undefined /\ messageIndex[1] >= messageCount

\* faulty variant: two messages are not yet ambiguous
Ambiguous_MoreThanTwo(messageIndex, messageCount) ==
    messageIndex = Undefined /\ messageCount > 2

\* messageIndex === undefined && messageCount > 1
Ambiguous(messageIndex, messageCount) == messageIndex = Undefined /\ messageCount > 1

\* faulty variant: the index is ignored
IndexOrZero_AlwaysZero(messageIndex) == 0

\* messageIndex || 0
IndexOrZero(messageIndex) ==
    IF messageIndex = Undefined \/ messageIndex = Some(0) THEN 0 ELSE messageIndex[1]

getL1ToL2Message(r, l2SignerOrProvider, messageIndex) ==
    LET all == getL1ToL2Messages(r, l2SignerOrProvider) IN
    IF all.outcome.kind = "throw" THEN all
    ELSE LET allL1ToL2Messages == all.outcome.value
             messageCount == Len(allL1ToL2Messages)
         IN Done(
              IF NoMessages(messageCount) THEN Throw(NoMessageFound(r))
              ELSE IF OutOfRange(messageIndex, messageCount)
                   THEN Throw(IndexOutOfRange(r, messageIndex[1], messageCount))
              ELSE IF Ambiguous(messageIndex, messageCount)
                   THEN Throw(AmbiguousMessageCount(r, messageCount))
              ELSE Return(ArrayGet(allL1ToL2Messages, IndexOrZero(messageIndex))),
              all.lookups)

(***************************************************************************)
(* getDepositEvents                                                        *)
(***************************************************************************)
\* faulty variant: the Transfer topic passes the filter too
IsDepositInitiated_OrTransfer(log) ==
    TopicAt(log, 0) = Some(DepositInitiated) \/ TopicAt(log, 0) = Some(Transfer)

\* the filter predicate of getDepositEvents
IsDepositInitiated(log) == TopicAt(log, 0) = Some(DepositInitiated)

\* iface.parseLog(log).args for the DepositInitiated fragment: three indexed
\* arguments in the topics, two words of data
parseLog(log) ==
    IF Len(log.topics) < 4 \/ Len(log.data) < 2
    THEN Throw(DecodeError(log))
    ELSE Return([l1Token |-> BigNumberFromHex(log.data[1]),
                 _from |-> BigNumberFromHex(log.topics[2]),
                 _to |-> BigNumberFromHex(log.topics[3]),
                 _sequenceNumber |-> BigNumberFromHex(log.topics[4]),
                 _amount |-> BigNumberFromHex(log.data[2])])

\* logs.map(log => iface.parseLog(log).args): the first throw ends the map
RECURSIVE parseLogs(_)
parseLogs(logs) ==
    IF logs = <<>> THEN Return(<<>>)
    ELSE LET head == parseLog(Head(logs)) IN
         IF head.kind = "throw" THEN head
         ELSE LET rest == parseLogs(Tail(logs)) IN
              IF rest.kind = "throw" THEN rest ELSE Return(<<head.value>> \o rest.value)

getDepositEvents(r) == parseLogs(SelectSeq(r.logs, IsDepositInitiated))

(***************************************************************************)
(* Calls of the receipt's methods                                          *)
(***************************************************************************)
Call(op, handle, messageIndex, done) ==
    [op |-> op, handle |-> handle, messageIndex |-> messageIndex,
     outcome |-> done.outcome, lookups |-> done.lookups]

NoCall == Call("none", Undefined, Undefined, Done(Return(Undefined), 0))

CallGetMessageNumbers ==
    /\ call' = Call("getMessageNumbers", Undefined, Undefined,
                    Done(Return(getMessageNumbers(receipt)), 0))
    /\ UNCHANGED <<receipt, msg, ticket, attempt>>

CallGetL1ToL2Messages ==
    \E h \in Handles :
        /\ call' = Call("getL1ToL2Messages", Some(h), Undefined, getL1ToL2Messages(receipt, h))
        /\ UNCHANGED <<receipt, msg, ticket, attempt>>

CallGetL1ToL2Message ==
    \E h \in Handles, i \in Indexes :
        /\ call' = Call("getL1ToL2Message", Some(h), i, getL1ToL2Message(receipt, h, i))
        /\ UNCHANGED <<receipt, msg, ticket, attempt>>

CallGetDepositEvents ==
    /\ call' = Call("getDepositEvents", Undefined, Undefined, Done(getDepositEvents(receipt), 0))
    /\ UNCHANGED <<receipt, msg, ticket, attempt>>

NoAttempt == [pc |-> "idle", observed |-> Undefined, outcome |-> Undefined]

Init ==
    /\ receipt \in Receipts
    /\ call = NoCall
    /\ msg = Undefined
    /\ ticket = "NotYetCreated"
    /\ attempt = NoAttempt

Next ==
    \/ CallGetMessageNumbers
    \/ CallGetL1ToL2Messages
    \/ CallGetL1ToL2Message
    \/ CallGetDepositEvents

Spec == Init /\ [][Next]_vars

(***************************************************************************)
(* L1ToL2Message status machine (one message, its retryable ticket)        *)
(*                                                                         *)
(* `ticket` is the destination chain's state of the ticket keyed by        *)
(* msg.retryableCreationId; the chain drives it.  `attempt` is the         *)
(* message object's last status query or redemption attempt.               *)
(***************************************************************************)
Statuses == {"NotYetCreated", "Created", "Redeemed", "Expired", "FailedCreation"}

Terminal == {"Redeemed", "Expired", "FailedCreation"}

InvalidStateForRedemption(status) ==
    Error("ArbTsError", "Cannot redeem. Message status: ${status} must be: Created",
          [status |-> status])

RedemptionRejected == Error("Error", "transaction failed", [code |-> "CALL_EXCEPTION"])

\* faulty variant: a ticket that is not yet created may be redeemed too
CanRedeem_OrNotYetCreated(status) == status \in {"Created", "NotYetCreated"}

\* the guard of redeem on the status it has just observed
CanRedeem(status) == status = "Created"

\* destination chain: the ticket is recorded
TicketCreated ==
    /\ ticket = "NotYetCreated"
    /\ ticket' = "Created"
    /\ UNCHANGED <<receipt, call, msg, attempt>>

\* destination chain: the ticket could not be created
TicketCreationFailed ==
    /\ ticket = "NotYetCreated"
    /\ ticket' = "FailedCreation"
    /\ UNCHANGED <<receipt, call, msg, attempt>>

\* destination chain: the ticket auto-executed or someone else redeemed it
TicketRedeemed ==
    /\ ticket = "Created"
    /\ ticket' = "Redeemed"
    /\ UNCHANGED <<receipt, call, msg, attempt>>

\* destination chain: the execution window elapsed
TicketExpired ==
    /\ ticket = "Created"
    /\ ticket' = "Expired"
    /\ UNCHANGED <<receipt, call, msg, attempt>>

\* status(): a read-only query keyed by the message identifier
status ==
    /\ msg # Undefined
    /\ attempt.pc = "idle"
    /\ attempt' = [pc |-> "idle", observed |-> Some(ticket), outcome |-> Undefined]
    /\ UNCHANGED <<receipt, call, msg, ticket>>

\* redeem(), up to the submission: query the status, refuse unless Created
redeem ==
    /\ msg # Undefined
    /\ msg[1].writable
    /\ attempt.pc = "idle"
    /\ attempt' =
           IF CanRedeem(ticket)
           THEN [pc |-> "submitting", observed |-> Some(ticket), outcome |-> Undefined]
           ELSE [pc |-> "idle", observed |-> Some(ticket),
                 outcome |-> Some(Throw(InvalidStateForRedemption(ticket)))]
    /\ UNCHANGED <<receipt, call, msg, ticket>>

\* redeem(), the submitted transaction: the ticket contract executes a ticket
\* that is still Created and rejects any other
redeemSubmitted ==
    /\ attempt.pc = "submitting"
    /\ IF ticket = "Created"
       THEN /\ ticket' = "Redeemed"
            /\ attempt' = [attempt EXCEPT !.pc = "idle", !.outcome = Some(Return("redeemed"))]
       ELSE /\ ticket' = ticket
            /\ attempt' = [attempt EXCEPT !.pc = "idle", !.outcome = Some(Throw(RedemptionRejected))]
    /\ UNCHANGED <<receipt, call, msg>>

\* a receipt with at most one log, resolved to its single message
InitStatus ==
    /\ receipt \in {r \in Receipts : Len(r.logs) <= 1}
    /\ \E h \in Handles :
          /\ call = Call("getL1ToL2Message", Some(h), Undefined,
                         getL1ToL2Message(receipt, h, Undefined))
          /\ call.outcome.kind = "return"
          /\ msg = call.outcome.value
    /\ ticket = "NotYetCreated"
    /\ attempt = NoAttempt

NextStatus ==
    \/ TicketCreated
    \/ TicketCreationFailed
    \/ TicketRedeemed
    \/ TicketExpired
    \/ status
    \/ redeem
    \/ redeemSubmitted

SpecStatus == InitStatus /\ [][NextStatus]_vars

(***************************************************************************)
(* Properties                                                              *)
(***************************************************************************)
DeliveryTopics == {InboxMessageDelivered, InboxMessageDeliveredFromOrigin}

\* positions (1-based) of the message-delivery logs of a receipt
DeliveryLogIndexes(r) ==
    {j \in 1..Len(r.logs) :
        Len(r.logs[j].topics) >= 1 /\ r.logs[j].topics[1] \in DeliveryTopics}

\* position of the i-th message-delivery log, in log order
NthDelivery(r, i) ==
    CHOOSE j \in DeliveryLogIndexes(r) :
        Cardinality({k \in DeliveryLogIndexes(r) : k < j}) = i - 1

MessageCountOf(r) == Cardinality(DeliveryLogIndexes(r))

\* the sequence numbers of a receipt, read off its logs position by position
ExpectedMessageNumbers(r) ==
    [i \in 1..MessageCountOf(r) |-> BigNumberFromHex(r.logs[NthDelivery(r, i)].topics[2])]

\* the handle resolves to a provider and its chain-id lookup succeeds
LookupSucceeds(h) == h.provider # Undefined /\ h.provider[1].detects

CalledMessages == call.op = "getL1ToL2Messages"

CalledMessage == call.op = "getL1ToL2Message"

\* C1: getMessageNumbers returns exactly one value per message-delivery log
\* (either topic), in log order, each decoded from topics[1] of its log, and
\* nothing from any other log.
C1_ExtractionInLogOrder ==
    call.op = "getMessageNumbers" =>
        /\ call.outcome.kind = "return"
        /\ Len(call.outcome.value) = MessageCountOf(receipt)
        /\ \A i \in 1..MessageCountOf(receipt) :
              call.outcome.value[i] = BigNumberFromHex(receipt.logs[NthDelivery(receipt, i)].topics[2])

\* two deliveries, one of each topic, around an unrelated log, larger number first
C1_Witness ==
    /\ call.op = "getMessageNumbers"
    /\ Len(receipt.logs) = 3
    /\ DeliveryLogIndexes(receipt) = {1, 3}
    /\ receipt.logs[1].topics[1] = InboxMessageDeliveredFromOrigin
    /\ receipt.logs[3].topics[1] = InboxMessageDelivered
    /\ call.outcome = Return(<<16, 10>>)

\* C2 as stated: with no message-delivery log, getL1ToL2Messages returns the
\* empty sequence for every handle and never fails.
C2_EmptyForEveryHandle ==
    (CalledMessages /\ MessageCountOf(receipt) = 0) => call.outcome = Return(<<>>)

\* C2 amended: with no message-delivery log, getL1ToL2Messages returns the
\* empty sequence when the handle resolves to a provider whose chain-id lookup
\* succeeds, and fails with the handle's error (no provider, lookup failed)
\* otherwise.
C2_EmptyWhenLookupSucceeds ==
    (CalledMessages /\ MessageCountOf(receipt) = 0) =>
        IF LookupSucceeds(call.handle[1])
        THEN call.outcome = Return(<<>>)
        ELSE call.outcome.kind = "throw"
             /\ call.outcome.error \in {MissingProvider, NetworkError}

\* a receipt with logs, none a delivery, read through a working handle
C2_Witness ==
    /\ CalledMessages
    /\ Len(receipt.logs) >= 2
    /\ MessageCountOf(receipt) = 0
    /\ LookupSucceeds(call.handle[1])
    /\ call.outcome = Return(<<>>)

\* C3: when the receipt yields zero messages, getL1ToL2Message fails with the
\* no-message error naming the receipt's transaction hash, for an absent index
\* and for every index value.
C3_NoMessageFoundFirst ==
    (CalledMessage /\ LookupSucceeds(call.handle[1]) /\ MessageCountOf(receipt) = 0) =>
        /\ call.outcome.kind = "throw"
        /\ call.outcome.error.name = "ArbTsError"
        /\ call.outcome.error.template = "No l1 to L2 message found for ${transactionHash}"
        /\ call.outcome.error.args = [transactionHash |-> receipt.transactionHash]

\* zero messages and an index that would also be out of range
C3_Witness ==
    /\ CalledMessage
    /\ LookupSucceeds(call.handle[1])
    /\ MessageCountOf(receipt) = 0
    /\ call.messageIndex = Some(2)
    /\ call.outcome = Throw(NoMessageFound(receipt))

\* C4: with count >= 1 messages and an explicit index >= count,
\* getL1ToL2Message fails with the out-of-range error reporting the index and
\* the count.
C4_IndexOutOfRange ==
    (/\ CalledMessage
     /\ LookupSucceeds(call.handle[1])
     /\ MessageCountOf(receipt) >= 1
     /\ call.messageIndex # Undefined
     /\ call.messageIndex[1] >= MessageCountOf(receipt)) =>
        /\ call.outcome.kind = "throw"
        /\ call.outcome.error.name = "ArbTsError"
        /\ call.outcome.error.template =
              "Provided message number out of range for ${transactionHash}; index was ${messageIndex}, but only ${messageCount} messages"
        /\ call.outcome.error.args.messageIndex = call.messageIndex[1]
        /\ call.outcome.error.args.messageCount = MessageCountOf(receipt)
        /\ call.outcome.error.args.transactionHash = receipt.transactionHash

\* the index equal to the count, two messages
C4_Witness ==
    /\ CalledMessage
    /\ MessageCountOf(receipt) = 2
    /\ call.messageIndex = Some(2)
    /\ call.outcome = Throw(IndexOutOfRange(receipt, 2, 2))

\* C5: with more than one message and no index, getL1ToL2Message fails with
\* the ambiguity error reporting the count; it never returns a message.
C5_AmbiguousWithoutIndex ==
    (/\ CalledMessage
     /\ LookupSucceeds(call.handle[1])
     /\ MessageCountOf(receipt) > 1
     /\ call.messageIndex = Undefined) =>
        /\ call.outcome.kind = "throw"
        /\ call.outcome.error.name = "ArbTsError"
        /\ call.outcome.error.template =
              "${messageCount} L2 messages for ${transactionHash}; must provide messageNumberIndex (or use (signersAndProviders, l1Txn))"
        /\ call.outcome.error.args.messageCount = MessageCountOf(receipt)

\* exactly two messages, no index
C5_Witness ==
    /\ CalledMessage
    /\ MessageCountOf(receipt) = 2
    /\ call.messageIndex = Undefined
    /\ call.outcome = Throw(AmbiguousMessageCount(receipt, 2))

\* C6: with count >= 1 messages, an index i in 0..count-1 returns the i-th
\* element of getL1ToL2Messages for the same handle, and no index with
\* count = 1 returns the single element.
C6_InRangeReturnsThatMessage ==
    (/\ CalledMessage
     /\ LookupSucceeds(call.handle[1])
     /\ MessageCountOf(receipt) >= 1) =>
        LET all == getL1ToL2Messages(receipt, call.handle[1]).outcome.value IN
        /\ (call.messageIndex # Undefined /\ call.messageIndex[1] \in 0..(MessageCountOf(receipt) - 1))
              => call.outcome = Return(Some(all[call.messageIndex[1] + 1]))
        /\ (call.messageIndex = Undefined /\ MessageCountOf(receipt) = 1)
              => call.outcome = Return(Some(all[1]))

\* the second of two messages with different numbers
C6_Witness ==
    /\ CalledMessage
    /\ MessageCountOf(receipt) = 2
    /\ ExpectedMessageNumbers(receipt) = <<10, 16>>
    /\ call.messageIndex = Some(1)
    /\ call.outcome.kind = "return"
    /\ call.outcome.value # Undefined
    /\ call.outcome.value[1].messageNumber = 16

\* C7: getL1ToL2Message either throws or returns one of the messages of
\* getL1ToL2Messages for the same handle, for every index including negative
\* ones.
C7_ReturnsMessageOrThrows ==
    (CalledMessage /\ call.outcome.kind = "return") =>
        /\ call.outcome.value # Undefined
        /\ call.outcome.value[1] \in Range(getL1ToL2Messages(receipt, call.handle[1]).outcome.value)

\* positions (1-based) of the DepositInitiated logs of a receipt
DepositLogIndexes(r) ==
    {j \in 1..Len(r.logs) :
        Len(r.logs[j].topics) >= 1 /\ r.logs[j].topics[1] = DepositInitiated}

\* DepositInitiated logs that do not decode against the event schema
UndecodableDeposits(r) == {j \in DepositLogIndexes(r) : parseLog(r.logs[j]).kind = "throw"}

NthDeposit(r, i) ==
    CHOOSE j \in DepositLogIndexes(r) :
        Cardinality({k \in DepositLogIndexes(r) : k < j}) = i - 1

\* the decoded arguments of the DepositInitiated logs, position by position
ExpectedDepositEvents(r) ==
    [i \in 1..Cardinality(DepositLogIndexes(r)) |-> parseLog(r.logs[NthDeposit(r, i)]).value]

FirstUndecodable(r) == CHOOSE j \in UndecodableDeposits(r) : \A k \in UndecodableDeposits(r) : j <= k

\* C9 as stated: getDepositEvents decodes only the DepositInitiated logs, and
\* when one of them does not decode the call fails with an error carrying the
\* index of the offending log.
C9_DecodeErrorCarriesIndex ==
    call.op = "getDepositEvents" =>
        IF UndecodableDeposits(receipt) = {}
        THEN call.outcome = Return(ExpectedDepositEvents(receipt))
        ELSE /\ call.outcome.kind = "throw"
             /\ "index" \in DOMAIN call.outcome.error.args
             /\ call.outcome.error.args.index + 1 \in UndecodableDeposits(receipt)

\* C9 amended: getDepositEvents decodes only the DepositInitiated logs, in log
\* order; when one of them does not decode the whole call fails with the
\* decoder's own error for the first such log, which carries no log index,
\* and nothing is returned.
C9_DecodeErrorPropagates ==
    call.op = "getDepositEvents" =>
        IF UndecodableDeposits(receipt) = {}
        THEN call.outcome = Return(ExpectedDepositEvents(receipt))
        ELSE /\ call.outcome = parseLog(receipt.logs[FirstUndecodable(receipt)])
             /\ call.outcome.kind = "throw"
             /\ "index" \notin DOMAIN call.outcome.error.args

\* a deposit that decodes, a Transfer, then a deposit that does not decode
C9_Witness ==
    /\ call.op = "getDepositEvents"
    /\ Len(receipt.logs) = 3
    /\ DepositLogIndexes(receipt) = {1, 3}
    /\ UndecodableDeposits(receipt) = {3}
    /\ receipt.logs[2].topics # <<>>
    /\ call.outcome.kind = "throw"

\* C10 (state part): after a successful chain-id lookup getL1ToL2Messages has
\* made one lookup and returns one message per sequence number, in order,
\* each bound to the handle, its number and the identifier computed from the
\* chain id and that number; different numbers give different identifiers.
C10_MessagesBound ==
    (CalledMessages /\ LookupSucceeds(call.handle[1])) =>
        LET h == call.handle[1]
            c == h.provider[1].chainId
            n == ExpectedMessageNumbers(receipt)
            m == call.outcome.value
        IN /\ call.lookups = 1
           /\ call.outcome.kind = "return"
           /\ Len(m) = Len(n)
           /\ \A i \in 1..Len(n) :
                 /\ m[i].l2SignerOrProvider = h
                 /\ m[i].messageNumber = n[i]
                 /\ m[i].retryableCreationId = calculateRetryableCreationId(c, n[i])
           /\ \A i, j \in 1..Len(n) :
                 n[i] # n[j] => m[i].retryableCreationId # m[j].retryableCreationId

\* C10: the state part holds always, and no step changes the receipt.
C10_MessagesBoundReceiptUnchanged == []C10_MessagesBound /\ [][receipt' = receipt]_vars

\* two messages with different numbers read through a signer
C10_Witness ==
    /\ CalledMessages
    /\ call.handle[1].isSigner
    /\ call.lookups = 1
    /\ call.outcome.kind = "return"
    /\ Len(call.outcome.value) = 2
    /\ call.outcome.value[1].messageNumber # call.outcome.value[2].messageNumber
    /\ call.outcome.value[1].writable

\* C8 (state part): a redemption that succeeded was attempted on an observed
\* status of Created and leaves the ticket Redeemed; one attempted on any
\* other observed status ended with the invalid-state error.
C8_RedeemOutcome ==
    attempt.outcome # Undefined =>
        /\ attempt.outcome[1].kind = "return"
              => (attempt.observed = Some("Created") /\ ticket = "Redeemed")
        /\ attempt.observed # Some("Created")
              => attempt.outcome[1] = Throw(InvalidStateForRedemption(attempt.observed[1]))

\* C8 (step part): a refused redemption leaves the ticket as it was, and a
\* ticket that is Redeemed, Expired or FailedCreation stays so.
C8_Steps ==
    /\ (attempt'.outcome # Undefined /\ attempt' # attempt /\ attempt'.observed # Some("Created"))
          => ticket' = ticket
    /\ ticket \in Terminal => ticket' = ticket

\* C8: redemption succeeds only from an observed Created and then the ticket
\* is Redeemed; in every other state it fails with the invalid-state error and
\* changes nothing; the three terminal states are never left.
C8_RedemptionGuard == []C8_RedeemOutcome /\ [][C8_Steps]_vars

\* a redemption that went through
C8_Witness ==
    /\ msg # Undefined
    /\ attempt.observed = Some("Created")
    /\ attempt.outcome = Some(Return("redeemed"))
    /\ ticket = "Redeemed"

====
